---- MODULE Spec2Model ----
(***************************************************************************)
(* Model of streamlit_webp_converter.py: the conversion functions          *)
(* (convert_image_to_webp and the three GIF functions) as operators, and   *)
(* the page script main() as a state machine (sidebar, uploader, convert   *)
(* button, the per-file loop and the summary).                             *)
(*                                                                         *)
(* What PIL reports about a file's bytes is an input: a record             *)
(*   open_ok      Image.open succeeds                                      *)
(*   size         len(image_data)                                          *)
(*   mode, transparency   image.mode and 'transparency' in image.info      *)
(*   is_animated, n_frames   the decoder's animation attributes            *)
(*   frames       per frame: seek succeeds, mode, transparency key,        *)
(*                declared duration (has_duration FALSE: none declared)    *)
(*   save_ok, new_size   whether save() succeeds and the bytes it writes   *)
(* Pixel contents and pixel dimensions are not modelled.  A float is kept  *)
(* as an exact fraction <<num, den>> in lowest terms.                      *)
(***************************************************************************)
EXTENDS Integers, Sequences, FiniteSets, TLC

VARIABLES
    lossless,             \* main: lossless
    quality,              \* main: quality
    uploaded_files,       \* main: uploaded_files (file names, in upload order)
    pc,                   \* position in main: "idle", "loop", "done", "crashed"
    i,                    \* number of loop iterations completed
    converted_files,      \* main: converted_files
    all_stats,            \* main: all_stats
    total_original_size,  \* main: total_original_size
    total_new_size,       \* main: total_new_size
    total_reduction,      \* main: total_reduction, <<>> while the name is unbound
    errors,               \* the st.error messages shown so far
    inputs,               \* history: for each file read, what the decoder reported
                          \* (img) and how the conversion call ended (ret)
    origin,               \* history: for each entry of converted_files, its input index
    last                  \* history: what the latest conversion call did and returned

vars == << lossless, quality, uploaded_files, pc, i, converted_files, all_stats,
           total_original_size, total_new_size, total_reduction, errors,
           inputs, origin, last >>

----------------------------------------------------------------------------
(* Bounds *)

MaxFiles == 3
MaxFrames == 2

(* Program constants *)

DefaultQuality == 85
LosslessQuality == 100
QualityBump == 5
MaxQuality == 100
DefaultDuration == 100
MinDuration == 50

(* The slider runs from 10 to 100 in steps of 5; these are the positions tried. *)
SliderPositions == {50, DefaultQuality, 100}

(* Every quality the conversion functions document (0-100), sampled. *)
QualityRange == {0, 10, 50, 85, 96, 100}

----------------------------------------------------------------------------
(* Strings: a file name is the sequence of its dot-separated parts. *)

Lower(s) ==
    CASE s = "PNG" -> "png"
      [] s = "GIF" -> "gif"
      [] s = "JPEG" -> "jpeg"
      [] s = "JPG" -> "jpg"
      [] s = "V2" -> "v2"
      [] OTHER -> s

Upper(s) ==
    CASE s = "png" -> "PNG"
      [] s = "gif" -> "GIF"
      [] s = "jpeg" -> "JPEG"
      [] s = "jpg" -> "JPG"
      [] s = "v2" -> "V2"
      [] OTHER -> s

(* filename.lower().split('.')[-1] *)
FileExt(filename) == Lower(filename[Len(filename)])

(* uploaded_file.name.rsplit('.', 1)[0] + '.webp' *)
WebpFilename(filename) ==
    IF Len(filename) = 1 THEN filename \o <<"webp">>
    ELSE SubSeq(filename, 1, Len(filename) - 1) \o <<"webp">>

UploadTypes == {"png", "jpg", "jpeg", "gif"}

FileNames ==
    { <<"a", "png">>, <<"b", "jpg">>, <<"c", "gif">>, <<"d", "v2", "GIF">>,
      <<"e", "JPEG">> }

(* The names tried in batches of several files. *)
BatchNames == { <<"a", "png">>, <<"b", "jpg">>, <<"c", "gif">> }

----------------------------------------------------------------------------
(* Arithmetic *)

Abs(n) == IF n < 0 THEN -n ELSE n

RECURSIVE GCD(_, _)
GCD(a, b) == IF b = 0 THEN a ELSE GCD(b, a % b)

Frac(num, den) ==
    LET g == GCD(Abs(num), den) IN << num \div g, den \div g >>

Min(a, b) == IF a < b THEN a ELSE b
Max(a, b) == IF a > b THEN a ELSE b

(* (1 - new_size / original_size) * 100; <<>> stands for ZeroDivisionError *)
Reduction(new_size, original_size) ==
    IF original_size = 0 THEN <<>>
    ELSE << Frac((original_size - new_size) * 100, original_size) >>

----------------------------------------------------------------------------
(* What a conversion call returns and does.                                *)
(*   ret      "ok": returns (webp_data, stats); "none": returns (None,     *)
(*            None); "raise": an exception leaves the function             *)
(*   new_size len(webp_data); stats: <<stats>> or <<>>                     *)
(*   errors   the st.error messages the call showed                        *)
(*   route    the function whose body did the work                         *)
(*   calls    the save() calls made: the frames handed over in order, the  *)
(*            keyword arguments passed (keys) and their values             *)

Raised(route, calls) ==
    [ ret |-> "raise", new_size |-> 0, stats |-> <<>>, errors |-> <<>>,
      route |-> route, calls |-> calls ]

Returned(route, calls, new_size, stats) ==
    [ ret |-> "ok", new_size |-> new_size, stats |-> <<stats>>, errors |-> <<>>,
      route |-> route, calls |-> calls ]

(* Mutant: the handler is missing and the exception leaves the function. *)
TryExceptMissing(r, message) == r

(* try: ... except Exception as e: st.error(message); return None, None *)
TryExcept(r, message) ==
    IF r.ret = "raise"
    THEN [ ret |-> "none", new_size |-> 0, stats |-> <<>>,
           errors |-> Append(r.errors, message),
           route |-> r.route, calls |-> r.calls ]
    ELSE r

SaveCall(frames, keys, q, durations) ==
    [ frames |-> frames, keys |-> keys, quality |-> q, durations |-> durations ]

Label(text, number) == [ text |-> text, number |-> number ]

----------------------------------------------------------------------------
(* convert_image_to_webp, lines 72-90: the mode the image is converted to. *)
NormalizeGeneric(mode, transparency, file_ext) ==
    IF mode = "RGBA"
    THEN IF file_ext = "png" THEN "RGBA" ELSE "RGB"
    ELSE IF mode = "P"
         THEN IF transparency THEN "RGBA" ELSE "RGB"
         ELSE IF mode \notin {"RGB", "RGBA"} THEN "RGB" ELSE mode

(* convert_image_to_webp, lines 95-104: the save() call and the label. *)
SaveGeneric(mode, q, ll) ==
    IF ll
    THEN SaveCall(<<[mode |-> mode, index |-> 0]>>, {"lossless"}, 0, <<>>)
    ELSE IF mode = "RGBA"
         THEN SaveCall(<<[mode |-> mode, index |-> 0]>>, {"quality", "optimize"},
                       Min(q + QualityBump, MaxQuality), <<>>)
         ELSE SaveCall(<<[mode |-> mode, index |-> 0]>>, {"quality", "optimize"}, q, <<>>)

LabelGeneric(q, ll) ==
    IF ll THEN Label("Sem perdas", <<>>) ELSE Label("Qualidade", <<q>>)

(* convert_static_gif_to_webp, lines 157-164 *)
NormalizeStaticGif(mode, transparency) ==
    IF mode = "P"
    THEN IF transparency THEN "RGBA" ELSE "RGB"
    ELSE IF mode \notin {"RGB", "RGBA"} THEN "RGB" ELSE mode

(* Mutant: the quality is handed to the encoder in lossless mode too. *)
SaveStaticGifWithQuality(mode, q, ll) ==
    SaveCall(<<[mode |-> mode, index |-> 0]>>,
             IF ll THEN {"lossless", "quality"} ELSE {"quality", "optimize"}, q, <<>>)

(* convert_static_gif_to_webp, lines 169-174 *)
SaveStaticGif(mode, q, ll) ==
    IF ll
    THEN SaveCall(<<[mode |-> mode, index |-> 0]>>, {"lossless"}, 0, <<>>)
    ELSE SaveCall(<<[mode |-> mode, index |-> 0]>>, {"quality", "optimize"}, q, <<>>)

LabelStaticGif(q, ll) ==
    IF ll THEN Label("WEBP Estatico - Sem perdas", <<>>)
    ELSE Label("WEBP Estatico - Qualidade", <<q>>)

(* Mutant: any other mode made opaque, as on the static routes. *)
NormalizeAnimatedFrameOpaqueOther(mode, transparency) ==
    IF mode = "P"
    THEN IF transparency THEN "RGBA" ELSE "RGB"
    ELSE IF mode \notin {"RGB", "RGBA"} THEN "RGB" ELSE mode

(* convert_animated_gif_to_webp, lines 220-227 *)
NormalizeAnimatedFrame(mode, transparency) ==
    IF mode = "P"
    THEN IF transparency THEN "RGBA" ELSE "RGB"
    ELSE IF mode \notin {"RGB", "RGBA"} THEN "RGBA" ELSE mode

(* Mutant: the floor on the duration is missing. *)
FrameDurationNoFloor(frame) ==
    IF frame.has_duration THEN frame.duration ELSE DefaultDuration

(* convert_animated_gif_to_webp, lines 232-234 *)
FrameDuration(frame) ==
    Max(IF frame.has_duration THEN frame.duration ELSE DefaultDuration, MinDuration)

(* convert_animated_gif_to_webp, lines 209-235: the loop over range(n_frames),
   from frame_index k - 1 on; seek raises on a frame the decoder cannot reach. *)
RECURSIVE ExtractFrames(_, _, _, _)
ExtractFrames(img, k, frames, durations) ==
    IF k > img.n_frames
    THEN [ ok |-> TRUE, frames |-> frames, durations |-> durations ]
    ELSE IF ~img.frames[k].seek_ok
         THEN [ ok |-> FALSE, frames |-> frames, durations |-> durations ]
         ELSE ExtractFrames(
                  img, k + 1,
                  Append(frames,
                         [ mode |-> NormalizeAnimatedFrame(img.frames[k].mode,
                                                           img.frames[k].transparency),
                           index |-> k - 1 ]),
                  Append(durations, FrameDuration(img.frames[k])))

(* convert_animated_gif_to_webp, lines 243-266; frames[0].save with
   append_images = frames[1:] hands over the frames in list order. *)
SaveAnimated(frames, durations, q, ll) ==
    LET append_images == IF Len(frames) > 1 THEN Tail(frames) ELSE <<>>
        handed == <<Head(frames)>> \o append_images
    IN  IF ll
        THEN SaveCall(handed, {"save_all", "append_images", "duration", "loop",
                               "lossless", "optimize"}, 0, durations)
        ELSE SaveCall(handed, {"save_all", "append_images", "duration", "loop",
                               "quality", "optimize"}, q, durations)

LabelAnimated(q, ll) ==
    IF ll THEN Label("WEBP Animado - Sem perdas", <<>>)
    ELSE Label("WEBP Animado - Qualidade", <<q>>)

----------------------------------------------------------------------------
(* convert_static_gif_to_webp(gif_image, image_data, filename, quality, lossless) *)
convert_static_gif_to_webp(img, filename, q, ll) ==
    LET route == "static_gif"
        mode == NormalizeStaticGif(img.mode, img.transparency)
        call == SaveStaticGif(mode, q, ll)
        reduction == Reduction(img.new_size, img.size)
        body ==
            IF ~img.save_ok THEN Raised(route, <<call>>)
            ELSE IF reduction = <<>> THEN Raised(route, <<call>>)
            ELSE Returned(route, <<call>>, img.new_size,
                     [ filename |-> filename,
                       original_format |-> "GIF",
                       original_size |-> img.size,
                       new_size |-> img.new_size,
                       reduction |-> reduction[1],
                       compression_type |-> LabelStaticGif(q, ll),
                       has_transparency |-> (mode = "RGBA"),
                       frames |-> 1,
                       animated |-> FALSE,
                       output_type |-> "WEBP Estatico" ])
    IN  TryExcept(body, <<"Erro ao converter GIF estatico", filename>>)

(* convert_animated_gif_to_webp(gif_image, image_data, filename, quality, lossless) *)
convert_animated_gif_to_webp(img, filename, q, ll) ==
    LET route == "animated_gif"
        ex == ExtractFrames(img, 1, <<>>, <<>>)
        call == SaveAnimated(ex.frames, ex.durations, q, ll)
        reduction == Reduction(img.new_size, img.size)
        body ==
            IF ~ex.ok THEN Raised(route, <<>>)
            ELSE IF ~img.save_ok THEN Raised(route, <<call>>)
            ELSE IF reduction = <<>> THEN Raised(route, <<call>>)
            ELSE Returned(route, <<call>>, img.new_size,
                     [ filename |-> filename,
                       original_format |-> "GIF",
                       original_size |-> img.size,
                       new_size |-> img.new_size,
                       reduction |-> reduction[1],
                       compression_type |-> LabelAnimated(q, ll),
                       has_transparency |->
                           (\E k \in 1..Len(ex.frames) : ex.frames[k].mode = "RGBA"),
                       frames |-> Len(ex.frames),
                       animated |-> TRUE,
                       output_type |-> "WEBP Animado" ])
    IN  TryExcept(body, <<"Erro ao converter GIF animado", filename>>)

(* Mutant: either attribute is enough. *)
IsAnimatedGifEither(is_animated, n_frames) == is_animated \/ n_frames > 1

(* convert_gif_to_webp, line 142: the routing test *)
IsAnimatedGif(is_animated, n_frames) == is_animated /\ n_frames > 1

(* convert_gif_to_webp(image_data, filename, quality, lossless) *)
convert_gif_to_webp(img, filename, q, ll) ==
    LET body ==
            IF ~img.open_ok THEN Raised("gif", <<>>)
            ELSE IF IsAnimatedGif(img.is_animated, img.n_frames)
                 THEN convert_animated_gif_to_webp(img, filename, q, ll)
                 ELSE convert_static_gif_to_webp(img, filename, q, ll)
    IN  TryExcept(body, <<"Erro ao processar GIF", filename>>)

(* convert_image_to_webp(image_data, filename, quality, lossless) *)
convert_image_to_webp(img, filename, q, ll) ==
    LET route == "generic"
        file_ext == FileExt(filename)
        mode == NormalizeGeneric(img.mode, img.transparency, file_ext)
        call == SaveGeneric(mode, q, ll)
        reduction == Reduction(img.new_size, img.size)
        body ==
            IF file_ext = "gif" THEN convert_gif_to_webp(img, filename, q, ll)
            ELSE IF ~img.open_ok THEN Raised(route, <<>>)
            ELSE IF ~img.save_ok THEN Raised(route, <<call>>)
            ELSE IF reduction = <<>> THEN Raised(route, <<call>>)
            ELSE Returned(route, <<call>>, img.new_size,
                     [ filename |-> filename,
                       original_format |-> Upper(file_ext),
                       original_size |-> img.size,
                       new_size |-> img.new_size,
                       reduction |-> reduction[1],
                       compression_type |-> LabelGeneric(q, ll),
                       has_transparency |-> (mode = "RGBA") ])
    IN  TryExcept(body, <<"Erro ao converter", filename>>)

----------------------------------------------------------------------------
(* Inputs: what the decoder and the encoder do with a file's bytes. *)

Modes == {"RGBA", "P", "RGB", "L", "LA"}
OriginalSizes == {1000, 2000}
EncodedSizes == {400, 800}

Image(open_ok, size, mode, transparency, is_animated, n_frames, frames, save_ok, new_size) ==
    [ open_ok |-> open_ok, size |-> size, mode |-> mode, transparency |-> transparency,
      is_animated |-> is_animated, n_frames |-> n_frames, frames |-> frames,
      save_ok |-> save_ok, new_size |-> new_size ]

(* The encoder either fails or writes one of the encoded sizes. *)
SaveOutcomes ==
    { <<FALSE, 0>> } \cup { <<TRUE, n>> : n \in EncodedSizes }

(* mode and transparency key of a decoded image or frame; only a palette
   image is tried with a key, no other mode's key is read by the code. *)
ModeReports ==
    { <<m, t>> \in Modes \X BOOLEAN : t => m = "P" }

DurationReports == { <<FALSE, 0>>, <<TRUE, 10>>, <<TRUE, 200>> }

FrameModeReports == { <<m, t>> \in ModeReports : m # "LA" }

FrameReports ==
    { [ seek_ok |-> TRUE, mode |-> mt[1], transparency |-> mt[2],
        has_duration |-> d[1], duration |-> d[2] ] :
        mt \in FrameModeReports, d \in DurationReports }
    \cup { [ seek_ok |-> FALSE, mode |-> "P", transparency |-> FALSE,
             has_duration |-> FALSE, duration |-> 0 ] }

(* Bytes that Image.open rejects; an empty upload is among them. *)
BadImages ==
    { Image(FALSE, n, "RGB", FALSE, FALSE, 1, <<>>, FALSE, 0) : n \in {0, 1000} }

(* Single images: the decoder may report one frame, or an animation flag and
   a frame count that disagree; each frame then reads as the image does. *)
StillImages ==
    { Image(TRUE, n, mt[1], mt[2], an[1], an[2],
            [ k \in 1..an[2] |->
                [ seek_ok |-> TRUE, mode |-> mt[1], transparency |-> mt[2],
                  has_duration |-> FALSE, duration |-> 0 ] ],
            sv[1], sv[2]) :
        n \in OriginalSizes, mt \in ModeReports,
        an \in { <<FALSE, 1>>, <<TRUE, 1>>, <<FALSE, 2>> }, sv \in SaveOutcomes }

(* Animations of 2..MaxFrames frames; image.mode is the first frame's. *)
AnimatedImages ==
    UNION { { Image(TRUE, 1000, fs[1].mode, fs[1].transparency, TRUE, n, fs, sv[1], sv[2]) :
                fs \in { f \in [1..n -> FrameReports] : f[1].seek_ok },
                sv \in SaveOutcomes } :
            n \in 2..MaxFrames }

Images == BadImages \cup StillImages \cup AnimatedImages

(* The images tried in batches of several files: every way a conversion can
   end on every route, with the sizes that tell the items apart. *)
PlainFrame ==
    [ seek_ok |-> TRUE, mode |-> "RGB", transparency |-> FALSE,
      has_duration |-> FALSE, duration |-> 0 ]

BatchImages ==
    { im \in BadImages : im.size = 0 }
    \cup { im \in StillImages :
              /\ ~im.is_animated /\ im.n_frames = 1
              /\ \/ im.mode = "RGB" /\ im.save_ok /\ im.size * 2 = im.new_size * 5
                 \/ im.mode = "P" /\ im.transparency /\ im.size = 2000 /\ ~im.save_ok }
    \cup { im \in AnimatedImages :
              /\ im.n_frames = 2
              /\ im.frames[1] = PlainFrame
              /\ \/ im.frames[2] = PlainFrame /\ (im.save_ok => im.new_size = 800)
                 \/ ~im.frames[2].seek_ok /\ ~im.save_ok }

----------------------------------------------------------------------------
(* main() *)

NoCall ==
    [ ret |-> "none", new_size |-> 0, stats |-> <<>>, errors |-> <<>>,
      route |-> "", calls |-> <<>> ]

(* State of a fresh page: lossy mode, the slider at its default, no files. *)
Init ==
    /\ lossless = FALSE
    /\ quality = DefaultQuality
    /\ uploaded_files = <<>>
    /\ pc = "idle"
    /\ i = 0
    /\ converted_files = <<>>
    /\ all_stats = <<>>
    /\ total_original_size = 0
    /\ total_new_size = 0
    /\ total_reduction = <<>>
    /\ errors = <<>>
    /\ inputs = <<>>
    /\ origin = <<>>
    /\ last = NoCall

(* lines 317-327: the radio set to "Sem perdas"; quality = 100 *)
SelectLossless ==
    /\ pc = "idle"
    /\ ~lossless
    /\ lossless' = TRUE
    /\ quality' = LosslessQuality
    /\ UNCHANGED << uploaded_files, pc, i, converted_files, all_stats,
                    total_original_size, total_new_size, total_reduction, errors,
                    inputs, origin, last >>

(* lines 317-325: the radio set to "Com perdas"; the slider is created anew *)
SelectLossy ==
    /\ pc = "idle"
    /\ lossless
    /\ lossless' = FALSE
    /\ quality' = DefaultQuality
    /\ UNCHANGED << uploaded_files, pc, i, converted_files, all_stats,
                    total_original_size, total_new_size, total_reduction, errors,
                    inputs, origin, last >>

(* line 325: the slider moved *)
SetQuality(q) ==
    /\ pc = "idle"
    /\ ~lossless
    /\ q # quality
    /\ quality' = q
    /\ UNCHANGED << lossless, uploaded_files, pc, i, converted_files, all_stats,
                    total_original_size, total_new_size, total_reduction, errors,
                    inputs, origin, last >>

(* lines 376-381: a file added to the uploader, which takes the four types *)
Upload(name, limit) ==
    /\ pc = "idle"
    /\ Len(uploaded_files) < limit
    /\ FileExt(name) \in UploadTypes
    /\ uploaded_files' = Append(uploaded_files, name)
    /\ UNCHANGED << lossless, quality, pc, i, converted_files, all_stats,
                    total_original_size, total_new_size, total_reduction, errors,
                    inputs, origin, last >>

(* lines 383, 409-418: the button, shown only when files are uploaded *)
ClickConvert ==
    /\ pc = "idle"
    /\ uploaded_files # <<>>
    /\ pc' = "loop"
    /\ i' = 0
    /\ converted_files' = <<>>
    /\ all_stats' = <<>>
    /\ total_original_size' = 0
    /\ total_new_size' = 0
    /\ UNCHANGED << lossless, quality, uploaded_files, total_reduction, errors,
                    inputs, origin, last >>

(* line 437: if webp_data and stats *)
Truthy(r) == r.ret = "ok" /\ r.new_size > 0 /\ r.stats # <<>>

(* Mutants: the converted file put in front; the encoded size added to the
   wrong total. *)
PrependConverted(files, data, name) == << [ data |-> data, name |-> name ] >> \o files
AddNewToOriginal(total, stats) == total + stats.new_size

(* lines 441-444 *)
AppendConverted(files, data, name) == Append(files, [ data |-> data, name |-> name ])
AppendStats(stats_list, stats) == Append(stats_list, stats)
AddOriginal(total, stats) == total + stats.original_size
AddNew(total, stats) == total + stats.new_size

(* lines 421-444: one iteration of the loop over uploaded_files *)
ProcessFile(imgs) ==
    /\ pc = "loop"
    /\ i < Len(uploaded_files)
    /\ \E img \in imgs :
         LET name == uploaded_files[i + 1]
             r == convert_image_to_webp(img, name, quality, lossless)
         IN  /\ inputs' = Append(inputs, [ img |-> img, ret |-> r.ret ])
             /\ last' = r
             /\ errors' = errors \o r.errors
             /\ IF r.ret = "raise"
                THEN /\ pc' = "crashed"
                     /\ UNCHANGED << i, converted_files, all_stats,
                                     total_original_size, total_new_size, origin >>
                ELSE /\ pc' = pc
                     /\ i' = i + 1
                     /\ IF Truthy(r)
                        THEN /\ converted_files' =
                                    AppendConverted(converted_files, r.new_size,
                                                    WebpFilename(name))
                             /\ all_stats' = AppendStats(all_stats, r.stats[1])
                             /\ total_original_size' =
                                    AddOriginal(total_original_size, r.stats[1])
                             /\ total_new_size' = AddNew(total_new_size, r.stats[1])
                             /\ origin' = Append(origin, i + 1)
                        ELSE UNCHANGED << converted_files, all_stats,
                                          total_original_size, total_new_size, origin >>
    /\ UNCHANGED << lossless, quality, uploaded_files, total_reduction >>

(* Mutant: the summary computed whether or not anything was converted. *)
SummaryAlways(files) == TRUE

(* line 450: if converted_files *)
SummaryShown(files) == files # <<>>

(* lines 446-454: after the loop *)
Summary ==
    /\ pc = "loop"
    /\ i = Len(uploaded_files)
    /\ IF SummaryShown(converted_files)
       THEN LET red == Reduction(total_new_size, total_original_size)
            IN  IF red = <<>>
                THEN pc' = "crashed" /\ UNCHANGED total_reduction
                ELSE pc' = "done" /\ total_reduction' = red
       ELSE pc' = "done" /\ UNCHANGED total_reduction
    /\ UNCHANGED << lossless, quality, uploaded_files, i, converted_files, all_stats,
                    total_original_size, total_new_size, errors, inputs, origin, last >>

(* Batches of up to MaxFiles files, over the batch names and images. *)
Next ==
    \/ SelectLossless
    \/ SelectLossy
    \/ \E q \in SliderPositions : SetQuality(q)
    \/ \E name \in BatchNames : Upload(name, MaxFiles)
    \/ ClickConvert
    \/ ProcessFile(BatchImages)
    \/ Summary

Spec == Init /\ [][Next]_vars

(* One uploaded file over every image. *)
NextItem ==
    \/ SelectLossless
    \/ SelectLossy
    \/ \E q \in SliderPositions : SetQuality(q)
    \/ \E name \in FileNames : Upload(name, 1)
    \/ ClickConvert
    \/ ProcessFile(Images)
    \/ Summary

SpecItem == Init /\ [][NextItem]_vars

----------------------------------------------------------------------------
(* Helpers of the properties *)

Succeeded == { n \in 1..Len(inputs) : inputs[n].ret = "ok" }
Failed == { n \in 1..Len(inputs) : inputs[n].ret # "ok" }

RECURSIVE SumOriginalSizes(_)
SumOriginalSizes(S) ==
    IF S = {} THEN 0
    ELSE LET n == CHOOSE x \in S : TRUE
         IN  inputs[n].img.size + SumOriginalSizes(S \ {n})

RECURSIVE SumEncodedSizes(_)
SumEncodedSizes(S) ==
    IF S = {} THEN 0
    ELSE LET n == CHOOSE x \in S : TRUE
         IN  inputs[n].img.new_size + SumEncodedSizes(S \ {n})

----------------------------------------------------------------------------
(* C1: the converted files and the stats rows keep the upload order: the
   k-th converted file and the k-th stats row come from the same input, the
   inputs they come from are increasing in k, and every successful input
   has its entry, whatever the pattern of successes and failures. *)
C1_OrderPreserved ==
    /\ Len(converted_files) = Len(all_stats)
    /\ Len(origin) = Len(all_stats)
    /\ \A k \in 1..Len(origin) :
         /\ origin[k] \in Succeeded
         /\ converted_files[k].name = WebpFilename(uploaded_files[origin[k]])
         /\ converted_files[k].data = inputs[origin[k]].img.new_size
         /\ all_stats[k].filename = uploaded_files[origin[k]]
         /\ all_stats[k].original_size = inputs[origin[k]].img.size
         /\ all_stats[k].new_size = inputs[origin[k]].img.new_size
    /\ \A j, k \in 1..Len(origin) : j < k => origin[j] < origin[k]
    /\ \A n \in Succeeded : \E k \in 1..Len(origin) : origin[k] = n

(* a.png, b.jpg, c.gif with b.jpg failing: the report holds a and c in order *)
C1_Witness ==
    /\ pc = "done"
    /\ uploaded_files = << <<"a", "png">>, <<"b", "jpg">>, <<"c", "gif">> >>
    /\ origin = <<1, 3>>
    /\ converted_files[1].name = <<"a", "webp">>
    /\ converted_files[2].name = <<"c", "webp">>
    /\ inputs[1].img.new_size # inputs[3].img.new_size

(* C2: a failing input (undecodable, unreadable frame or encoder failure, on
   any route) never aborts the batch: the call returns (None, None) and does
   not raise, the loop goes on to every later input, and the failed input
   adds no converted file, no stats row and nothing to either total. *)
C2_FailureIsolated ==
    /\ pc # "crashed"
    /\ last.ret \in {"ok", "none"}
    /\ Len(inputs) = i
    /\ pc = "done" => i = Len(uploaded_files)
    /\ \A n \in 1..Len(inputs) :
         (~inputs[n].img.open_ok \/ ~inputs[n].img.save_ok) => n \in Failed
    /\ \A n \in Failed : \A k \in 1..Len(origin) : origin[k] # n
    /\ Len(converted_files) = Cardinality(Succeeded)
    /\ Len(all_stats) = Cardinality(Succeeded)
    /\ total_original_size = SumOriginalSizes(Succeeded)
    /\ total_new_size = SumEncodedSizes(Succeeded)

(* a failure on each of the three routes' side, each followed by a success *)
C2_Witness ==
    /\ pc = "done"
    /\ Len(uploaded_files) = 3
    /\ Failed = {1, 2}
    /\ ~inputs[1].img.open_ok
    /\ inputs[2].img.open_ok /\ ~inputs[2].img.save_ok
    /\ origin = <<3>>
    /\ total_original_size = inputs[3].img.size

(* C3: after every prefix of the batch the two totals are the sums of the
   original and encoded byte counts of the successful items so far (also as
   recorded in the stats rows), and the final reduction is
   (1 - total_new_size / total_original_size) * 100; originals 1000 and 2000
   with encoded 400 and 800 give 3000, 1200 and 60. *)
C3_TotalsAreSums ==
    /\ total_original_size = SumOriginalSizes(Succeeded)
    /\ total_new_size = SumEncodedSizes(Succeeded)
    /\ \A k \in 1..Len(all_stats) :
         /\ all_stats[k].original_size > 0
         /\ all_stats[k].reduction[1] * all_stats[k].original_size
              = (all_stats[k].original_size - all_stats[k].new_size) * 100
                  * all_stats[k].reduction[2]
    /\ (pc = "done" /\ all_stats # <<>>) =>
         /\ total_reduction # <<>>
         /\ total_reduction[1][2] > 0
         /\ total_reduction[1][1] * total_original_size
              = (total_original_size - total_new_size) * 100 * total_reduction[1][2]
    /\ ( /\ pc = "done"
         /\ Len(all_stats) = 2
         /\ all_stats[1].original_size = 1000 /\ all_stats[1].new_size = 400
         /\ all_stats[2].original_size = 2000 /\ all_stats[2].new_size = 800 ) =>
         /\ total_original_size = 3000
         /\ total_new_size = 1200
         /\ total_reduction = << <<60, 1>> >>

C3_Witness ==
    /\ pc = "done"
    /\ Len(inputs) = 3
    /\ Failed = {2}
    /\ all_stats[1].original_size = 1000 /\ all_stats[1].new_size = 400
    /\ all_stats[2].original_size = 2000 /\ all_stats[2].new_size = 800
    /\ total_original_size = 3000
    /\ total_new_size = 1200
    /\ total_reduction = << <<60, 1>> >>

(* C4, as claimed: a batch whose items all fail ends with zero totals, a
   failure count equal to the number of failed items, and an aggregate
   reduction defined as 0%. *)
C4_AllFailedReductionZero ==
    (pc = "done" /\ Succeeded = {}) =>
        /\ total_original_size = 0
        /\ total_new_size = 0
        /\ Len(errors) = Cardinality(Failed)
        /\ total_reduction = << <<0, 1>> >>

(* C4, amended: a batch whose items all fail ends with zero totals and one
   error message per failed item; the summary is skipped, so no aggregate
   reduction is computed and no division by zero is reached; with no file
   uploaded the conversion never starts. *)
C4_AllFailedNoSummary ==
    /\ pc # "crashed"
    /\ uploaded_files = <<>> => pc = "idle"
    /\ (pc = "done" /\ Succeeded = {}) =>
         /\ total_original_size = 0
         /\ total_new_size = 0
         /\ converted_files = <<>>
         /\ Len(errors) = Cardinality(Failed)
         /\ Cardinality(Failed) = Len(uploaded_files)
         /\ Len(uploaded_files) > 0
         /\ total_reduction = <<>>

C4_Witness ==
    /\ pc = "done"
    /\ Len(uploaded_files) = 2
    /\ Failed = {1, 2}
    /\ Len(errors) = 2
    /\ total_original_size = 0
    /\ total_reduction = <<>>

----------------------------------------------------------------------------
(* The latest file read: its name and what the decoder reported for it. *)
LastName == uploaded_files[Len(inputs)]
LastImg == inputs[Len(inputs)].img
LastExt == LastName[Len(LastName)]

(* C5: extracting an animation of n frames hands the encoder exactly n
   frames and n durations, frame k - 1 of the stream at position k, and the
   k-th duration is max(d_k, 50), d_k the declared delay of that frame or 100
   when none is declared: never under 50, 10 becomes 50, 200 stays 200. *)
C5_ExtractionAligned ==
    (inputs # <<>> /\ last.route = "animated_gif" /\ last.calls # <<>>) =>
        LET c == last.calls[1]
            n == LastImg.n_frames
        IN  /\ Len(last.calls) = 1
            /\ Len(c.frames) = n
            /\ Len(c.durations) = n
            /\ "duration" \in c.keys
            /\ \A k \in 1..n :
                 LET f == LastImg.frames[k]
                     d == IF f.has_duration THEN f.duration ELSE 100
                 IN  /\ c.frames[k].index = k - 1
                     /\ c.durations[k] >= 50
                     /\ c.durations[k] = (IF d >= 50 THEN d ELSE 50)
                     /\ (f.has_duration /\ f.duration = 10) => c.durations[k] = 50
                     /\ (f.has_duration /\ f.duration = 200) => c.durations[k] = 200

(* declared 10 ms then 200 ms: the encoder gets 50 and 200, in that order *)
C5_Witness ==
    /\ inputs # <<>>
    /\ last.route = "animated_gif"
    /\ last.ret = "ok"
    /\ LastImg.frames[1].has_duration /\ LastImg.frames[1].duration = 10
    /\ LastImg.frames[2].has_duration /\ LastImg.frames[2].duration = 200
    /\ last.calls[1].durations = <<50, 200>>
    /\ last.calls[1].frames[1].index = 0
    /\ last.calls[1].frames[2].index = 1

(* C6: a file whose extension is gif in any case, once decoded, takes the
   animated route exactly when the decoder reports more than one frame and
   the animation flag; the animated route's stats have animated = true and
   frames = the decoder's frame count, the static route's have animated =
   false. *)
C6_GifRouting ==
    (inputs # <<>> /\ LastExt \in {"gif", "GIF"} /\ LastImg.open_ok) =>
        /\ last.route \in {"animated_gif", "static_gif"}
        /\ (last.route = "animated_gif")
             <=> (LastImg.n_frames > 1 /\ LastImg.is_animated)
        /\ (last.ret = "ok" /\ last.route = "animated_gif") =>
             /\ last.stats[1].animated = TRUE
             /\ last.stats[1].frames = LastImg.n_frames
        /\ (last.ret = "ok" /\ last.route = "static_gif") =>
             last.stats[1].animated = FALSE

(* d.v2.GIF, two frames and the flag set: animated, frames = 2 *)
C6_Witness ==
    /\ inputs # <<>>
    /\ LastName = <<"d", "v2", "GIF">>
    /\ LastImg.is_animated /\ LastImg.n_frames = 2
    /\ last.route = "animated_gif"
    /\ last.ret = "ok"
    /\ last.stats[1].animated = TRUE
    /\ last.stats[1].frames = 2

(* C7, as claimed: on both static routes a transparency-capable frame
   encoded lossy is saved with quality min(quality + 5, 100) and an opaque
   frame with exactly quality. *)
C7_TransparencyBumpOnStaticRoutes ==
    ( /\ inputs # <<>>
      /\ ~lossless
      /\ last.route \in {"generic", "static_gif"}
      /\ last.ret = "ok" ) =>
        LET c == last.calls[1]
        IN  /\ "quality" \in c.keys
            /\ c.quality = (IF c.frames[1].mode = "RGBA"
                            THEN (IF quality + 5 < 100 THEN quality + 5 ELSE 100)
                            ELSE quality)

(* C8, as claimed: a file whose extension is jpg or jpeg is always saved as
   an opaque frame and its stats have has_transparency = false, whatever
   mode the decoder reports. *)
C8_JpegAlwaysOpaque ==
    ( /\ inputs # <<>>
      /\ LastExt \in {"jpg", "jpeg", "JPG", "JPEG"}
      /\ last.ret = "ok" ) =>
        /\ last.calls[1].frames[1].mode = "RGB"
        /\ last.stats[1].has_transparency = FALSE

(* C10: in lossless mode the quality has no influence: with any other
   quality the same input takes the same route, makes the same save() calls
   (lossless passed, no quality passed), ends the same way and gets the same
   compression label, which names no quality. *)
C10_LosslessIgnoresQuality ==
    (inputs # <<>> /\ lossless) =>
        /\ \A q \in QualityRange :
             LET other == convert_image_to_webp(LastImg, LastName, q, TRUE)
             IN  /\ other.route = last.route
                 /\ other.calls = last.calls
                 /\ other.ret = last.ret
                 /\ other.stats = last.stats
        /\ \A k \in 1..Len(last.calls) :
             /\ "lossless" \in last.calls[k].keys
             /\ "quality" \notin last.calls[k].keys
        /\ last.ret = "ok" => last.stats[1].compression_type.number = <<>>

(* a lossless run of an animation *)
C10_Witness ==
    /\ inputs # <<>>
    /\ lossless
    /\ last.route = "animated_gif"
    /\ last.ret = "ok"
    /\ last.stats[1].compression_type = Label("WEBP Animado - Sem perdas", <<>>)
    /\ convert_image_to_webp(LastImg, LastName, 0, FALSE).calls # last.calls

----------------------------------------------------------------------------
(* C11, as claimed: every frame handed to the animated encoder is
   transparency-capable, whatever the mode the frame was decoded in. *)
C11_AllFramesTransparencyCapable ==
    (inputs # <<>> /\ last.route = "animated_gif" /\ last.ret = "ok") =>
        \A k \in 1..Len(last.calls[1].frames) :
            last.calls[1].frames[k].mode = "RGBA"

(* C11, amended: every frame handed to the animated encoder is in one of the
   two canonical modes, decided frame by frame: transparency-capable for a
   palette frame with a transparency key, for an RGBA frame and for any
   mode other than palette and RGB; opaque for a palette frame without a key
   and for an RGB frame.  The stats' has_transparency says whether any frame
   is transparency-capable. *)
C11_FrameModesPerFrame ==
    (inputs # <<>> /\ last.route = "animated_gif" /\ last.calls # <<>>) =>
        LET c == last.calls[1]
        IN  /\ Len(c.frames) = LastImg.n_frames
            /\ \A k \in 1..Len(c.frames) :
                 LET f == LastImg.frames[k]
                 IN  /\ c.frames[k].mode \in {"RGB", "RGBA"}
                     /\ (c.frames[k].mode = "RGB")
                          <=> \/ f.mode = "RGB"
                              \/ f.mode = "P" /\ ~f.transparency
            /\ last.ret = "ok" =>
                 (last.stats[1].has_transparency
                    <=> \E k \in 1..Len(c.frames) : c.frames[k].mode = "RGBA")

(* a palette frame without a key stays opaque beside a grey frame made
   transparency-capable *)
C11_Witness ==
    /\ inputs # <<>>
    /\ last.route = "animated_gif"
    /\ last.ret = "ok"
    /\ LastImg.frames[1].mode = "P" /\ ~LastImg.frames[1].transparency
    /\ LastImg.frames[2].mode = "L"
    /\ last.calls[1].frames[1].mode = "RGB"
    /\ last.calls[1].frames[2].mode = "RGBA"
    /\ last.stats[1].has_transparency

(* C12, as claimed: on the PNG/JPEG/other route a decoded mode with an alpha
   channel (RGBA, grey+alpha) is saved transparency-capable under a png
   name and opaque under any other name, and the saved mode is always one
   of the two canonical modes. *)
C12_AlphaChannelFirst ==
    (inputs # <<>> /\ last.route = "generic" /\ last.ret = "ok") =>
        LET saved == last.calls[1].frames[1].mode
        IN  /\ saved \in {"RGB", "RGBA"}
            /\ LastImg.mode \in {"RGBA", "LA"} =>
                 saved = (IF LastExt \in {"png", "PNG"} THEN "RGBA" ELSE "RGB")

====
